---- MODULE Spec2Model ----
(***************************************************************************)
(* Bank statement analyzer (BankAnalyzer_Desktop.FINAL.code.py): the core  *)
(* functions (moneyfy, get_counterparty, detect_other_industries,          *)
(* find_col, build_policy_actions) and the BankAnalyzerApp handlers        *)
(* (choose_file, add_file, reset_all, run_analysis, the popup's close).    *)
(*                                                                         *)
(* Text is a sequence of one-character strings, so that parsing, substring *)
(* search, case folding and ordering are computed rather than assumed.     *)
(* Money is an integer number of hundredths (the cells of the model carry  *)
(* at most two fraction digits, for which the program's float arithmetic   *)
(* on sums and remainders is exact).                                       *)
(***************************************************************************)
EXTENDS Integers, Sequences, FiniteSets, TLC

(* ------------------------------ text -------------------------------- *)

\* The characters of the model in code point order (Python compares str by code point).
AsciiOrder ==
  <<" ","!","&","(",")","+",",","-",".",
    "0","1","2","3","4","5","6","7","8","9",
    "A","B","C","D","E","F","G","H","I","J","K","L","M",
    "N","O","P","Q","R","S","T","U","V","W","X","Y","Z",
    "a","b","c","d","e","f","g","h","i","j","k","l","m",
    "n","o","p","q","r","s","t","u","v","w","x","y","z">>

Ord == [c \in {AsciiOrder[i] : i \in 1..Len(AsciiOrder)} |->
          CHOOSE i \in 1..Len(AsciiOrder) : AsciiOrder[i] = c]

IsDigit(c) == Ord[c] \in 10..19
IsUpperChar(c) == Ord[c] \in 20..45
IsLowerChar(c) == Ord[c] \in 46..71
IsAlnum(c) == IsDigit(c) \/ IsUpperChar(c) \/ IsLowerChar(c)
IsSpace(c) == c = " "
DigitVal(c) == Ord[c] - 10

\* str.lower() and str.upper()
lower(s) == [i \in 1..Len(s) |-> IF IsUpperChar(s[i]) THEN AsciiOrder[Ord[s[i]] + 26] ELSE s[i]]
upper(s) == [i \in 1..Len(s) |-> IF IsLowerChar(s[i]) THEN AsciiOrder[Ord[s[i]] - 26] ELSE s[i]]

\* str.strip()
RECURSIVE lstrip(_)
lstrip(s) == IF s # <<>> /\ IsSpace(Head(s)) THEN lstrip(Tail(s)) ELSE s
RECURSIVE rstrip(_)
rstrip(s) == IF s # <<>> /\ IsSpace(s[Len(s)]) THEN rstrip(SubSeq(s, 1, Len(s) - 1)) ELSE s
strip(s) == rstrip(lstrip(s))

\* Python's `x in c` on str: x occurs in c as a substring
Contains(x, c) ==
  \/ x = <<>>
  \/ \E i \in 1..(Len(c) - Len(x) + 1) : c[i] = x[1] /\ SubSeq(c, i, i + Len(x) - 1) = x

\* Python's str comparison a < b (lexicographic by code point)
RECURSIVE StrLess(_, _)
StrLess(a, b) ==
  IF b = <<>> THEN FALSE
  ELSE IF a = <<>> THEN TRUE
  ELSE IF Head(a) = Head(b) THEN StrLess(Tail(a), Tail(b))
  ELSE Ord[Head(a)] < Ord[Head(b)]

\* str.split(): the maximal runs of non-space characters
RECURSIVE split(_)
split(s) ==
  LET t == lstrip(s) IN
  IF t = <<>> THEN <<>>
  ELSE LET n == IF \E i \in 1..Len(t) : IsSpace(t[i])
                THEN (CHOOSE i \in 1..Len(t) : IsSpace(t[i]) /\ \A j \in 1..(i - 1) : ~IsSpace(t[j])) - 1
                ELSE Len(t)
       IN <<SubSeq(t, 1, n)>> \o split(SubSeq(t, n + 1, Len(t)))

\* " ".join(parts)
RECURSIVE join(_)
join(parts) ==
  IF parts = <<>> THEN <<>>
  ELSE IF Len(parts) = 1 THEN parts[1]
  ELSE parts[1] \o <<" ">> \o join(Tail(parts))

\* A cell of a table as pandas holds it: a str, or NaN for a missing value.
NaN == [na |-> TRUE, s |-> <<>>]
Cell(s) == [na |-> FALSE, s |-> s]

(* ------------------------------ moneyfy ------------------------------ *)

\* The digits of s as a number; s is all digits
RECURSIVE DigitsVal(_)
DigitsVal(s) == IF s = <<>> THEN 0 ELSE DigitsVal(SubSeq(s, 1, Len(s) - 1)) * 10 + DigitVal(s[Len(s)])

AllDigits(s) == \A i \in 1..Len(s) : IsDigit(s[i])

\* float(s) for the decimal forms [sign] digits [. digits] and [sign] . digits,
\* in hundredths; ok = FALSE where float() raises ValueError
decimal_parts(ip, fp) ==
  IF AllDigits(ip) /\ AllDigits(fp) /\ Len(ip) + Len(fp) > 0
  THEN [ok |-> TRUE, v |-> DigitsVal(ip) * 100 + DigitsVal(SubSeq(fp \o <<"0", "0">>, 1, 2))]
  ELSE [ok |-> FALSE, v |-> 0]

decimal_at(u, dot) == decimal_parts(SubSeq(u, 1, dot - 1), SubSeq(u, dot + 1, Len(u)))

decimal(u) ==
  decimal_at(u, IF \E i \in 1..Len(u) : u[i] = "."
                THEN CHOOSE i \in 1..Len(u) : u[i] = "." /\ \A j \in 1..(i - 1) : u[j] # "."
                ELSE Len(u) + 1)

negated(f) == [ok |-> f.ok, v |-> -f.v]

float_stripped(s) ==
  IF s # <<>> /\ Head(s) = "-" THEN negated(decimal(Tail(s)))
  ELSE IF s # <<>> /\ Head(s) = "+" THEN decimal(Tail(s))
  ELSE decimal(s)

float(s) == float_stripped(strip(s))

\* the value of a float() call inside the try: 0.0 from the except branch
value_or_zero(f) == IF f.ok THEN f.v ELSE 0

moneyfy_str(s) ==
  IF s # <<>> /\ Head(s) = "(" /\ s[Len(s)] = ")"
  THEN -value_or_zero(float(SubSeq(s, 2, Len(s) - 1)))
  ELSE IF s # <<>> THEN value_or_zero(float(s)) ELSE 0

moneyfy(x) ==
  IF x.na THEN 0 ELSE moneyfy_str(strip(SelectSeq(x.s, LAMBDA c : c # ",")))

(* -------------------------- get_counterparty -------------------------- *)

UNKNOWN == <<"U","N","K","N","O","W","N">>

\* The alternation of the pattern, in its order
SUFFIXES ==
  << <<"S","D","N"," ","B","H","D">>,
     <<"B","E","R","H","A","D">>,
     <<"P","L","T">>,
     <<"E","N","T","E","R","P","R","I","S","E">>,
     <<"T","R","A","D","I","N","G">>,
     <<"H","O","L","D","I","N","G","S">>,
     <<"C","A","F","E">>,
     <<"C","E","N","T","R","E">>,
     <<"S","E","N","D","I","R","I","A","N">> >>

\* The class [A-Za-z0-9 &\.-]
NameChar(c) == IsAlnum(c) \/ c \in {" ", "&", ".", "-"}

\* The alternatives that match u (the text in upper case: re.I) at position j
SuffixAt(u, j) ==
  {k \in 1..Len(SUFFIXES) :
     /\ j + Len(SUFFIXES[k]) - 1 <= Len(u)
     /\ u[j] = SUFFIXES[k][1]
     /\ SubSeq(u, j, j + Len(SUFFIXES[k]) - 1) = SUFFIXES[k]}

Max(S) == CHOOSE x \in S : \A y \in S : y <= x
Min(S) == CHOOSE x \in S : \A y \in S : x <= y

\* The first position of the run of class characters that ends just before j
RECURSIVE run_start(_, _)
run_start(desc, j) == IF j > 1 /\ NameChar(desc[j - 1]) THEN run_start(desc, j - 1) ELSE j

\* ends: the positions where an alternative matches after one class character or more.
\* The match starts at the leftmost position a run reaches back to; being greedy, the
\* run then goes to the last of ends it can reach, where the first alternative wins.
search_from(desc, u, ends) ==
  IF ends = {} THEN [matched |-> FALSE, group |-> <<>>]
  ELSE LET i == Min({run_start(desc, j) : j \in ends})
           j == Max({e \in ends : run_start(desc, e) <= i})
           k == Min(SuffixAt(u, j))
       IN [matched |-> TRUE, group |-> SubSeq(desc, i, j + Len(SUFFIXES[k]) - 1)]

search_upper(desc, u) ==
  search_from(desc, u, {j \in 2..Len(desc) : NameChar(desc[j - 1]) /\ SuffixAt(u, j) # {}})

\* re.search(r"([A-Za-z0-9 &\.-]+(?:SDN BHD|...|SENDIRIAN))", desc, re.I)
re_search(desc) == search_upper(desc, upper(desc))

\* re.sub(r"\s+", " ", s)
RECURSIVE collapse(_)
collapse(s) ==
  IF Len(s) < 2 THEN s
  ELSE IF IsSpace(s[1]) /\ IsSpace(s[2]) THEN collapse(Tail(s))
  ELSE <<s[1]>> \o collapse(Tail(s))

\* the fallback: the first four tokens
first_tokens(parts) ==
  IF parts # <<>>
  THEN upper(join(SubSeq(parts, 1, IF Len(parts) < 4 THEN Len(parts) ELSE 4)))
  ELSE UNKNOWN

counterparty_of(s, m) ==
  IF m.matched THEN upper(strip(collapse(m.group)))
  ELSE first_tokens(split([i \in 1..Len(s) |-> IF IsAlnum(s[i]) \/ s[i] = " " THEN s[i] ELSE " "]))

get_counterparty(desc) ==
  IF desc.na THEN UNKNOWN ELSE counterparty_of(desc.s, re_search(desc.s))

(* ----------------------- detect_other_industries ---------------------- *)

BASE_INDUSTRY == "food"

INDUSTRY_KEYWORDS ==
  [ food |-> { <<"f","o","o","d">>, <<"c","a","f","e">>, <<"r","e","s","t","a","u","r","a","n","t">>,
               <<"e","a","t","e","r","y">>, <<"b","a","k","e","r","y">>, <<"d","r","i","n","k">>,
               <<"g","r","o","c","e","r">>, <<"c","a","t","e","r","i","n","g">> },
    construction |-> { <<"c","e","m","e","n","t">>, <<"s","t","e","e","l">>, <<"h","a","r","d","w","a","r","e">>,
               <<"c","o","n","c","r","e","t","e">>, <<"c","o","n","s","t","r","u","c","t","i","o","n">>,
               <<"b","u","i","l","d","e","r">> },
    healthcare |-> { <<"c","l","i","n","i","c">>, <<"h","o","s","p","i","t","a","l">>, <<"m","e","d","i","c","a","l">>,
               <<"p","h","a","r","m","a">>, <<"h","e","a","l","t","h">> },
    logistics |-> { <<"t","r","a","n","s","p","o","r","t">>, <<"d","e","l","i","v","e","r","y">>,
               <<"f","r","e","i","g","h","t">>, <<"c","o","u","r","i","e","r">> },
    education |-> { <<"s","c","h","o","o","l">>, <<"c","o","l","l","e","g","e">>, <<"a","c","a","d","e","m","y">>,
               <<"t","r","a","i","n","i","n","g">>, <<"t","u","i","t","i","o","n">> } ]

\* desc is a str here (the caller passes txns["desc"].astype(str))
detect_other_industries(desc) ==
  LET s == lower(desc) IN
  {ind \in DOMAIN INDUSTRY_KEYWORDS : \E k \in INDUSTRY_KEYWORDS[ind] : Contains(k, s)}

(* ------------------------------ find_col ------------------------------ *)

\* Python's None as the result of find_col: no column name is this text
None == <<"None">>

\* The truth value of a column name or None (`a or b` takes b when a is None or "")
Truthy(x) == x # None /\ x # <<>>
Or(a, b) == IF Truthy(a) THEN a ELSE b

AnyIn(xs, c) == \E i \in 1..Len(xs) : Contains(xs[i], c)
AllIn(xs, c) == \A i \in 1..Len(xs) : Contains(xs[i], c)

ColPasses(c, include_any, include_all, exclude_any) ==
  /\ ~(exclude_any # <<>> /\ AnyIn(exclude_any, c))
  /\ ~(include_all # <<>> /\ ~AllIn(include_all, c))
  /\ ~(include_any # <<>> /\ ~AnyIn(include_any, c))

find_col_last(cols, include_any, include_all, exclude_any) ==
  LET cols_l == [i \in 1..Len(cols) |-> strip(lower(cols[i]))]
      hits == {i \in 1..Len(cols) : ColPasses(cols_l[i], include_any, include_all, exclude_any)}
  IN IF hits = {} THEN None ELSE cols[Max(hits)]
find_col(cols, include_any, include_all, exclude_any) ==
  LET cols_l == [i \in 1..Len(cols) |-> strip(lower(cols[i]))]
      hits == {i \in 1..Len(cols) : ColPasses(cols_l[i], include_any, include_all, exclude_any)}
  IN IF hits = {} THEN None ELSE cols[Min(hits)]

(* --------------------------- policy matrix ---------------------------- *)

POLICY_MATRIX ==
  [ INCOME_CONCENTRATION |->
      [action_level |-> "Enhanced Review",
       action |-> "Assess income concentration risk and apply a haircut/discount to this income source when calculating sustainable income and affordability."],
    INDUSTRY_MISMATCH |->
      [action_level |-> "Clarification Required",
       action |-> "Request clarification and supporting documents (e.g., invoices, contracts, delivery proof) to verify whether inflows represent genuine operating revenue. Consider excluding non-core inflows."],
    ROUND_AMOUNT_PATTERN |->
      [action_level |-> "Cash Flow Normalization",
       action |-> "Perform cash flow normalization by excluding unusually round or repetitive transactions. Review for potential fund cycling or related-party transfers."],
    ESCALATE_HIGH |->
      [action_level |-> "Escalate",
       action |-> "Escalate to Credit Risk / Compliance for enhanced due diligence before proceeding with any lending decision."],
    MONITOR_MEDIUM |->
      [action_level |-> "Monitor",
       action |-> "Obtain additional explanation and monitor closely before fully recognizing this income as sustainable."],
    STANDARD_SAFE |->
      [action_level |-> "Standard",
       action |-> "No immediate action required. Continue standard monitoring."] ]

\* The priority table of build_policy_actions
priority_low_escalate ==
  [l \in {"Escalate", "Cash Flow Normalization", "Enhanced Review", "Clarification Required", "Monitor", "Standard"} |->
     CASE l = "Escalate" -> 3
       [] l = "Cash Flow Normalization" -> 4
       [] l = "Enhanced Review" -> 3
       [] l = "Clarification Required" -> 2
       [] l = "Monitor" -> 1
       [] OTHER -> 0]
priority ==
  [l \in {"Escalate", "Cash Flow Normalization", "Enhanced Review", "Clarification Required", "Monitor", "Standard"} |->
     CASE l = "Escalate" -> 5
       [] l = "Cash Flow Normalization" -> 4
       [] l = "Enhanced Review" -> 3
       [] l = "Clarification Required" -> 2
       [] l = "Monitor" -> 1
       [] OTHER -> 0]

\* priority.get(lvl, 0)
priority_get(lvl) == IF lvl \in DOMAIN priority THEN priority[lvl] ELSE 0

\* items: the entries of the rule ids the matrix holds, in the order given
RECURSIVE rule_items(_)
rule_items(rule_ids) ==
  IF rule_ids = <<>> THEN <<>>
  ELSE (IF Head(rule_ids) \in DOMAIN POLICY_MATRIX THEN <<POLICY_MATRIX[Head(rule_ids)]>> ELSE <<>>)
       \o rule_items(Tail(rule_ids))

\* the entry appended for the risk
risk_item(risk) ==
  IF risk = "High" THEN POLICY_MATRIX["ESCALATE_HIGH"]
  ELSE IF risk = "Medium" THEN POLICY_MATRIX["MONITOR_MEDIUM"]
  ELSE POLICY_MATRIX["STANDARD_SAFE"]

InSeq(x, s) == \E i \in 1..Len(s) : s[i] = x

\* one turn of the loop over items: `if act not in seen` and the priority comparison
fold_item_no_dedup(acc, it) ==
  [final_level |-> IF priority_get(it.action_level) > priority_get(acc.final_level)
                   THEN it.action_level ELSE acc.final_level,
   actions |-> Append(acc.actions, it.action)]
fold_item(acc, it) ==
  [final_level |-> IF priority_get(it.action_level) > priority_get(acc.final_level)
                   THEN it.action_level ELSE acc.final_level,
   actions |-> IF InSeq(it.action, acc.actions) THEN acc.actions ELSE Append(acc.actions, it.action)]

RECURSIVE fold_items(_, _)
fold_items(acc, items) ==
  IF items = <<>> THEN acc ELSE fold_items(fold_item(acc, Head(items)), Tail(items))

\* (final_level, actions); the caller shows " ".join(actions)
policy_result(r) == [action_level |-> r.final_level, actions |-> r.actions]

build_policy_actions(risk, rule_ids) ==
  policy_result(fold_items([final_level |-> "Standard", actions |-> <<>>],
                           Append(rule_items(rule_ids), risk_item(risk))))

(* ------------------------- run_analysis: one table -------------------- *)

\* the keyword tuples of the find_col calls of run_analysis
KW_DESCRIPTION == <<<<"d","e","s","c","r","i","p","t","i","o","n">>>>
KW_DESC == <<<<"d","e","s","c">>>>
KW_TRANSACTION_DETAILS == <<<<"t","r","a","n","s","a","c","t","i","o","n">>, <<"d","e","t","a","i","l","s">>>>
KW_NARRATION == <<<<"n","a","r","r","a","t","i","o","n">>>>
KW_PARTICULAR == <<<<"p","a","r","t","i","c","u","l","a","r">>>>
KW_CREDIT == <<<<"c","r","e","d","i","t">>>>
KW_DEPOSIT == <<<<"d","e","p","o","s","i","t">>>>
KW_CR == <<<<"c","r">>>>
KW_INFLOW == <<<<"i","n","f","l","o","w">>>>
KW_IN == <<<<"i","n">>>>
KW_DEBIT == <<<<"d","e","b","i","t">>>>
KW_WITHDRAW == <<<<"w","i","t","h","d","r","a","w">>>>
KW_DR == <<<<"d","r">>>>
KW_OUTFLOW == <<<<"o","u","t","f","l","o","w">>>>
KW_OUT == <<<<"o","u","t">>>>
KW_X_DESC == <<<<"d","e","s","c","r","i","p","t","i","o","n">>, <<"d","e","s","c">>>>
KW_X_DATE == <<<<"d","a","t","e">>, <<"d","e","s","c">>, <<"d","e","s","c","r","i","p","t","i","o","n">>, <<"t","r","a","n","s","a","c","t","i","o","n">>>>

\* df.columns = [c.strip() for c in df.columns]
strip_columns(columns) == [i \in 1..Len(columns) |-> strip(columns[i])]

desc_col(cols) ==
  Or(find_col(cols, KW_DESCRIPTION, <<>>, <<>>),
  Or(find_col(cols, KW_DESC, <<>>, <<>>),
  Or(find_col(cols, KW_TRANSACTION_DETAILS, <<>>, <<>>),
  Or(find_col(cols, KW_NARRATION, <<>>, <<>>),
     find_col(cols, KW_PARTICULAR, <<>>, <<>>)))))

credit_col(cols) ==
  Or(find_col(cols, KW_CREDIT, <<>>, <<>>),
  Or(find_col(cols, KW_DEPOSIT, <<>>, <<>>),
  Or(find_col(cols, KW_CR, <<>>, KW_X_DESC),
  Or(find_col(cols, KW_INFLOW, <<>>, <<>>),
     find_col(cols, KW_IN, <<>>, KW_X_DATE)))))

debit_col(cols) ==
  Or(find_col(cols, KW_DEBIT, <<>>, <<>>),
  Or(find_col(cols, KW_WITHDRAW, <<>>, <<>>),
  Or(find_col(cols, KW_DR, <<>>, KW_X_DESC),
  Or(find_col(cols, KW_OUTFLOW, <<>>, <<>>),
     find_col(cols, KW_OUT, <<>>, KW_X_DATE)))))

\* df[name]: the position of the column of that name
ColIndex(cols, name) == Min({i \in 1..Len(cols) : cols[i] = name})

\* one row with its desc, credit, debit and company columns (a side without a
\* column is 0.0 throughout)
transaction(r, d, has_credit, c, has_debit, b) ==
  [desc |-> d,
   credit |-> IF has_credit THEN moneyfy(c) ELSE 0,
   debit |-> IF has_debit THEN moneyfy(b) ELSE 0,
   company |-> get_counterparty(d)]

transactions_of(rows, di, has_credit, ci, has_debit, bi) ==
  [r \in 1..Len(rows) |->
     transaction(r, rows[r][di], has_credit, rows[r][ci], has_debit, rows[r][bi])]

resolved(rows, cols, dc, cc, bc) ==
  transactions_of(rows, ColIndex(cols, dc),
                  Truthy(cc), IF Truthy(cc) THEN ColIndex(cols, cc) ELSE 1,
                  Truthy(bc), IF Truthy(bc) THEN ColIndex(cols, bc) ELSE 1)

transactions_cols(rows, cols) == resolved(rows, cols, desc_col(cols), credit_col(cols), debit_col(cols))

transactions(tbl) == transactions_cols(tbl.rows, strip_columns(tbl.columns))

\* the loop over selected_files: dfs holds one frame per table kept, alerts the
\* lines inserted for the tables given up
load_step_abort(acc, path, tbl) ==
  IF ~tbl.readable
  THEN [dfs |-> <<>>, alerts |-> Append(acc.alerts, [kind |-> "error", path |-> path])]
  ELSE IF ~Truthy(desc_col(strip_columns(tbl.columns)))
  THEN [dfs |-> <<>>, alerts |-> Append(acc.alerts, [kind |-> "skipped", path |-> path])]
  ELSE [acc EXCEPT !.dfs = Append(@, transactions(tbl))]
load_step(acc, path, tbl) ==
  IF ~tbl.readable
  THEN [acc EXCEPT !.alerts = Append(@, [kind |-> "error", path |-> path])]
  ELSE IF ~Truthy(desc_col(strip_columns(tbl.columns)))
  THEN [acc EXCEPT !.alerts = Append(@, [kind |-> "skipped", path |-> path])]
  ELSE [acc EXCEPT !.dfs = Append(@, transactions(tbl))]

RECURSIVE load_from(_, _, _)
load_from(acc, files, dsk) ==
  IF files = <<>> THEN acc
  ELSE load_from(load_step(acc, Head(files), dsk[Head(files)]), Tail(files), dsk)

load(files, dsk) == load_from([dfs |-> <<>>, alerts |-> <<>>], files, dsk)

\* pd.concat(dfs, ignore_index=True)
RECURSIVE concat(_)
concat(dfs) == IF dfs = <<>> THEN <<>> ELSE Head(dfs) \o concat(Tail(dfs))

(* ------------------------ run_analysis: aggregation ------------------- *)

RECURSIVE sum_credit(_)
sum_credit(data) == IF data = <<>> THEN 0 ELSE Head(data).credit + sum_credit(Tail(data))
sum_debit_zero(data) == 0
RECURSIVE sum_debit(_)
sum_debit(data) == IF data = <<>> THEN 0 ELSE Head(data).debit + sum_debit(Tail(data))

\* data[data["credit"] > 0]
credit_rows(data) == SelectSeq(data, LAMBDA t : t.credit > 0)

\* the keys of a groupby: sort=True puts them in ascending order
RECURSIVE sorted_keys(_)
sorted_keys(S) ==
  IF S = {} THEN <<>>
  ELSE LET m == CHOOSE x \in S : \A y \in S : y = x \/ StrLess(x, y)
       IN <<m>> \o sorted_keys(S \ {m})

\* the keys in the order of their first row
RECURSIVE first_seen_keys(_)
first_seen_keys(rows) ==
  IF rows = <<>> THEN <<>>
  ELSE LET rest == first_seen_keys(SubSeq(rows, 1, Len(rows) - 1))
           c == rows[Len(rows)].company
       IN IF InSeq(c, rest) THEN rest ELSE Append(rest, c)

\* .groupby("company")["credit"].sum(): one sum per key, in the order of the keys
sum_by(rows, keys) ==
  [k \in 1..Len(keys) |->
     [company |-> keys[k],
      credit |-> sum_credit(SelectSeq(rows, LAMBDA t : t.company = keys[k]))]]

groupby_sum_first_seen(rows) == sum_by(rows, first_seen_keys(rows))
groupby_sum(rows) == sum_by(rows, sorted_keys({rows[i].company : i \in 1..Len(rows)}))

TOP_N == 5

\* .nlargest(n), keep="first": descending, equal values in the order of the series
RECURSIVE nlargest_keep_last(_, _)
nlargest_keep_last(series, n) ==
  IF n = 0 \/ series = <<>> THEN <<>>
  ELSE LET i == CHOOSE i \in 1..Len(series) :
                  /\ \A j \in 1..Len(series) : series[j].credit <= series[i].credit
                  /\ \A j \in (i + 1)..Len(series) : series[j].credit < series[i].credit
       IN <<series[i]>> \o nlargest_keep_last(SubSeq(series, 1, i - 1) \o SubSeq(series, i + 1, Len(series)), n - 1)
RECURSIVE nlargest(_, _)
nlargest(series, n) ==
  IF n = 0 \/ series = <<>> THEN <<>>
  ELSE LET i == CHOOSE i \in 1..Len(series) :
                  /\ \A j \in 1..Len(series) : series[j].credit <= series[i].credit
                  /\ \A j \in 1..(i - 1) : series[j].credit < series[i].credit
       IN <<series[i]>> \o nlargest(SubSeq(series, 1, i - 1) \o SubSeq(series, i + 1, Len(series)), n - 1)

\* (credit / total_in * 100).round(1), in tenths of a percent: the quotient by long
\* division, then to the nearest tenth, a half going to the even one
pct_of(credit, total_in) ==
  LET q0 == credit \div total_in
      r0 == credit % total_in
      d1 == (r0 * 10) \div total_in
      r1 == (r0 * 10) % total_in
      d2 == (r1 * 10) \div total_in
      r2 == (r1 * 10) % total_in
      d3 == (r2 * 10) \div total_in
      r3 == (r2 * 10) % total_in
      fl == q0 * 1000 + d1 * 100 + d2 * 10 + d3
  IN IF 2 * r3 > total_in \/ (2 * r3 = total_in /\ fl % 2 = 1) THEN fl + 1 ELSE fl

with_pct(t, total_in) ==
  [i \in 1..Len(t) |-> [company |-> t[i].company, credit |-> t[i].credit,
                        pct |-> pct_of(t[i].credit, total_in)]]

top5_of(data, total_in) == with_pct(nlargest(groupby_sum(credit_rows(data)), TOP_N), total_in)

(* --------------------------- run_analysis: rules ---------------------- *)

\* str(x) of a cell (astype(str)): a missing value reads "nan"
astype_str(x) == IF x.na THEN <<"n","a","n">> ELSE x.s

CONCENTRATION_PCT == 30

\* Rule A
concentration(pct) == pct >= CONCENTRATION_PCT * 10

\* Rule B: some narrative has industries and the base industry is not among them
mismatch_without_industry(txns) ==
  \E i \in 1..Len(txns) : BASE_INDUSTRY \notin detect_other_industries(astype_str(txns[i].desc))
mismatch(txns) ==
  \E i \in 1..Len(txns) :
     LET inds == detect_other_industries(astype_str(txns[i].desc))
     IN inds # {} /\ BASE_INDUSTRY \notin inds

\* Rule C: abs(c) % 10000 == 0 or abs(c) % 5000 == 0, over c > 0 (money in hundredths)
Abs(c) == IF c < 0 THEN -c ELSE c
is_round_10000(c) == Abs(c) % (10000 * 100) = 0
is_round(c) == (Abs(c) % (10000 * 100) = 0) \/ (Abs(c) % (5000 * 100) = 0)
round_pattern(txns) == \E i \in 1..Len(txns) : txns[i].credit > 0 /\ is_round(txns[i].credit)

FLAG_A == "Income heavily depends on one company (>30%)"
FLAG_B == "Source looks unrelated to your business industry"
FLAG_C == "Many inflows are very round numbers (possible manual adjustments)"

\* "Safe" if not flags else ("Medium" if len(flags) == 1 else "High")
risk_of(flags) == IF flags = <<>> THEN "Safe" ELSE IF Len(flags) = 1 THEN "Medium" ELSE "High"

rule_ids_of(a, b, c) ==
  (IF a THEN <<"INCOME_CONCENTRATION">> ELSE <<>>)
  \o (IF b THEN <<"INDUSTRY_MISMATCH">> ELSE <<>>)
  \o (IF c THEN <<"ROUND_AMOUNT_PATTERN">> ELSE <<>>)

flags_of(a, b, c) ==
  (IF a THEN <<FLAG_A>> ELSE <<>>) \o (IF b THEN <<FLAG_B>> ELSE <<>>) \o (IF c THEN <<FLAG_C>> ELSE <<>>)

\* one turn of the loop over top5: the rules, the risk, the policy
assessed(row, rule_ids, flags, risk, pol) ==
  [company |-> row.company, credit |-> row.credit, pct |-> row.pct,
   rule_ids |-> rule_ids, flags |-> flags, risk |-> risk,
   action_level |-> pol.action_level, actions |-> pol.actions]

assess_risk(row, rule_ids, flags, risk) ==
  assessed(row, rule_ids, flags, risk, build_policy_actions(risk, rule_ids))

assess_rules(row, a, b, c) ==
  assess_risk(row, rule_ids_of(a, b, c), flags_of(a, b, c), risk_of(flags_of(a, b, c)))

assess_txns(row, txns) ==
  assess_rules(row, concentration(row.pct), mismatch(txns), round_pattern(txns))

assess(row, data) ==
  assess_txns(row, SelectSeq(data, LAMBDA t : t.company = row.company /\ t.credit > 0))

\* what one call of run_analysis computes from the selected files (they are not empty)
ranked(alerts, loaded, data, total_in, total_out, top5) ==
  [alerts |-> alerts, loaded |-> loaded, inflow |-> loaded /\ total_in > 0, data |-> data,
   total_in |-> total_in, total_out |-> total_out, net |-> total_in - total_out,
   top5 |-> top5,
   records |-> [i \in 1..Len(top5) |-> assess(top5[i], data)]]

totals(alerts, loaded, data, total_in, total_out) ==
  ranked(alerts, loaded, data, total_in, total_out,
         IF loaded /\ total_in > 0 THEN top5_of(data, total_in) ELSE <<>>)

aggregate(alerts, loaded, data) == totals(alerts, loaded, data, sum_credit(data), sum_debit(data))

analysis_of(ld) == aggregate(ld.alerts, ld.dfs # <<>>, concat(ld.dfs))

analysis(files, dsk) == analysis_of(load(files, dsk))

(* ------------------------------ the app -------------------------------- *)

\* the lines the model lets "No file selected." pile up to in the alert box
MaxAlertLines == 3

VARIABLES
  disk,            \* the files the dialogs can name: path -> table (never written)
  selected_files,  \* self.selected_files
  file_listbox,    \* the lines of self.file_listbox
  alert_box,       \* the lines and blocks of self.alert_box
  tree,            \* the rows of self.tree
  kpi_in,          \* self.kpi_in, self.kpi_out: the amount shown (hundredths)
  kpi_out,
  kpi_net,         \* self.kpi_net: the amount shown and its colour
  chart,           \* the pie chart and its legend: the rows drawn, <<>> when cleared
  popup_open,      \* self._popup_open
  popup_text,      \* the summary lines of the open popup
  data,            \* the frame `data` of the last run_analysis (<<>>: none merged)
  last_op,         \* the handler that ran last
  policy_in,       \* an argument pair of build_policy_actions, and what it returned
  policy_out,
  call_in,         \* an argument of get_counterparty or of the column lookups, and
  call_out         \* what came back

vars == <<disk, selected_files, file_listbox, alert_box, tree, kpi_in, kpi_out, kpi_net,
          chart, popup_open, popup_text, data, last_op, policy_in, policy_out,
          call_in, call_out>>

gui == <<selected_files, file_listbox, alert_box, tree, kpi_in, kpi_out, kpi_net,
         chart, popup_open, popup_text>>

SUCCESS == "#4ADE80"
DANGER == "#F87171"

msg(text) == [kind |-> "msg", text |-> text]

MSG_READY == msg("Ready. Upload CSV bank statements and click 'Run AI Analysis'.")
MSG_CLEARED == msg("Cleared. Ready for new analysis.")
MSG_NO_FILE == msg("No file selected.")
MSG_NO_VALID == msg("No valid data loaded. Please check your CSV format.")
MSG_NO_INFLOW == msg("No inflow transactions detected (credit = 0).")

\* the window as __init__ and _build_ui leave it
InitApp ==
  /\ selected_files = <<>>
  /\ file_listbox = <<>>
  /\ alert_box = <<MSG_READY>>
  /\ tree = <<>>
  /\ kpi_in = 0
  /\ kpi_out = 0
  /\ kpi_net = [value |-> 0, color |-> SUCCESS]
  /\ chart = <<>>
  /\ popup_open = FALSE
  /\ popup_text = <<>>
  /\ data = <<>>
  /\ last_op = "init"

\* the lines _update_file_list writes
file_lines(files) == [i \in 1..Len(files) |-> [n |-> i, name |-> files[i]]]

\* While the popup is open it holds the grab (win.grab_set()): the buttons of the
\* main window get no clicks until it is closed.

\* askopenfilename returned f ("" when the dialog is cancelled)
choose_file(f) ==
  /\ ~popup_open
  /\ IF f # ""
     THEN /\ selected_files' = <<f>>
          /\ file_listbox' = file_lines(selected_files')
     ELSE UNCHANGED <<selected_files, file_listbox>>
  /\ last_op' = "choose_file"
  /\ UNCHANGED <<disk, alert_box, tree, kpi_in, kpi_out, kpi_net, chart, popup_open, popup_text,
                 data, policy_in, policy_out, call_in, call_out>>

add_file(f) ==
  /\ ~popup_open
  /\ IF f # "" /\ ~InSeq(f, selected_files)
     THEN /\ selected_files' = Append(selected_files, f)
          /\ file_listbox' = file_lines(selected_files')
     ELSE UNCHANGED <<selected_files, file_listbox>>
  /\ last_op' = "add_file"
  /\ UNCHANGED <<disk, alert_box, tree, kpi_in, kpi_out, kpi_net, chart, popup_open, popup_text,
                 data, policy_in, policy_out, call_in, call_out>>

reset_all ==
  /\ ~popup_open
  /\ selected_files' = <<>>
  /\ file_listbox' = <<>>
  /\ alert_box' = <<MSG_CLEARED>>
  /\ tree' = <<>>
  /\ kpi_in' = 0
  /\ kpi_out' = 0
  /\ kpi_net' = [value |-> 0, color |-> SUCCESS]
  /\ chart' = <<>>
  /\ last_op' = "reset_all"
  /\ UNCHANGED <<disk, popup_open, popup_text, data, policy_in, policy_out, call_in, call_out>>

\* the popup's close (its X button and WM_DELETE_WINDOW)
close ==
  /\ popup_open
  /\ popup_open' = FALSE
  /\ popup_text' = <<>>
  /\ last_op' = "close"
  /\ UNCHANGED <<disk, selected_files, file_listbox, alert_box, tree, kpi_in, kpi_out, kpi_net,
                 chart, data, policy_in, policy_out, call_in, call_out>>

\* _render_alert_block
alert_block(r) ==
  [kind |-> "block", risk |-> r.risk, company |-> r.company, pct |-> r.pct,
   reason |-> r.flags, action_level |-> r.action_level, actions |-> r.actions]

\* self.tree.insert: (rank, company, inflow, pct, risk, reason) and the tag
tree_row(i, r) ==
  [rank |-> i, company |-> r.company, inflow |-> r.credit, pct |-> r.pct,
   risk |-> r.risk, reason |-> r.flags,
   tag |-> IF r.risk = "Safe" THEN "safe" ELSE IF r.risk = "Medium" THEN "medium" ELSE "high"]

\* high_risk_companies
high_risk(records) ==
  LET hs == SelectSeq(records, LAMBDA r : r.risk = "High")
  IN [i \in 1..Len(hs) |-> [company |-> hs[i].company, pct |-> hs[i].pct,
                            action_level |-> hs[i].action_level]]

run_analysis ==
  /\ ~popup_open
  /\ last_op' = "run_analysis"
  /\ UNCHANGED <<disk, selected_files, file_listbox, policy_in, policy_out, call_in, call_out>>
  /\ IF selected_files = <<>>
     THEN /\ Len(alert_box) < MaxAlertLines
          /\ alert_box' = Append(alert_box, MSG_NO_FILE)
          /\ data' = <<>>
          /\ UNCHANGED <<tree, kpi_in, kpi_out, kpi_net, chart, popup_open, popup_text>>
     ELSE \E a \in {analysis(selected_files, disk)} :
          IF ~a.loaded
          THEN /\ alert_box' = Append(a.alerts, MSG_NO_VALID)
               /\ data' = <<>>
               /\ UNCHANGED <<tree, kpi_in, kpi_out, kpi_net, chart, popup_open, popup_text>>
          ELSE /\ data' = a.data
               /\ kpi_in' = a.total_in
               /\ kpi_out' = a.total_out
               /\ kpi_net' = [value |-> a.net, color |-> IF a.net >= 0 THEN SUCCESS ELSE DANGER]
               /\ IF ~a.inflow
                  THEN /\ alert_box' = Append(a.alerts, MSG_NO_INFLOW)
                       /\ UNCHANGED <<tree, chart, popup_open, popup_text>>
                  ELSE /\ tree' = [i \in 1..Len(a.records) |-> tree_row(i, a.records[i])]
                       /\ alert_box' = a.alerts \o [i \in 1..Len(a.records) |-> alert_block(a.records[i])]
                       /\ popup_open' = (high_risk(a.records) # <<>>)
                       /\ popup_text' = high_risk(a.records)
                       /\ chart' = a.top5

(* ------------------------- the files of the model ---------------------- *)

HEADER_STD == <<<<"D","a","t","e">>, <<"D","e","s","c","r","i","p","t","i","o","n">>, <<"C","r","e","d","i","t">>, <<"D","e","b","i","t">>>>
HEADER_ALT == <<<<"D","a","t","e">>, <<"N","a","r","r","a","t","i","o","n">>, <<" ","D","e","p","o","s","i","t"," ">>, <<"W","i","t","h","d","r","a","w","a","l">>>>
HEADER_NO_DESC == <<<<"D","a","t","e">>, <<"M","e","m","o">>, <<"C","r","e","d","i","t">>, <<"D","e","b","i","t">>>>

\* a file read_csv parses, and one it raises on
table(columns, rows) == [readable |-> TRUE, columns |-> columns, rows |-> rows]
UNREADABLE == [readable |-> FALSE, columns |-> <<>>, rows |-> <<>>]

\* a record of a statement: date, narrative, amount in, amount out
row(desc, credit, debit) == <<Cell(<<"1">>), desc, credit, debit>>

\* the records the tables of the model are made of
ROWS ==
  << row(Cell(<<"A","C","M","E"," ","T","R","A","D","I","N","G">>), Cell(<<"1","5","0","0","0">>), NaN),
     row(Cell(<<"A","C","M","E"," ","T","R","A","D","I","N","G"," ","c","l","i","n","i","c">>), Cell(<<"1","5","0","0","1">>), NaN),
     row(Cell(<<"S","T","E","E","L"," ","H","O","L","D","I","N","G","S">>), Cell(<<"5",",","0","0","0",".","0","0">>), Cell(<<"2","0">>)),
     row(Cell(<<"C","i","t","y"," ","C","a","f","e">>), Cell(<<"1","5","0","0","1">>), NaN),
     row(Cell(<<"s","t","e","e","l"," ","c","a","f","e">>), Cell(<<"1","0","0","0","0">>), Cell(<<"a","b","c">>)),
     row(NaN, Cell(<<"(","5","0","0",")">>), NaN),
     row(Cell(<<"m","i","s","c"," ","n","o","t","e">>), Cell(<<" ","1",",","2","3","4",".","5","0">>), Cell(<<"(","7",")">>)) >>

\* the longest table made of ROWS
MaxRows == 2

SeqsUpTo(S, n) == UNION {[1..k -> S] : k \in 0..n}

PATH_A == "a.csv"
PATH_B == "b.csv"
PATH_C == "c.csv"
PATH_D == "d.csv"

two_files(ta, tb) == [p \in {PATH_A, PATH_B} |-> IF p = PATH_A THEN ta ELSE tb]

\* a second statement, with other column names
SECOND_TABLES ==
  { table(HEADER_ALT, <<>>),
    table(HEADER_ALT, <<row(Cell(<<"Z","e","n"," ","B","a","k","e","r","y">>), Cell(<<"2","0","0","0","0">>), Cell(<<"1","5">>))>>) }

\* statements for the rules: every table of up to MaxRows of ROWS beside a second one
RuleDisks ==
  { two_files(table(HEADER_STD, [i \in 1..Len(ix) |-> ROWS[ix[i]]]), tb) :
      ix \in SeqsUpTo(1..Len(ROWS), MaxRows), tb \in SECOND_TABLES }

\* statements for the ranking: one record per payer, the payers in descending name
\* order over the two files, each paying one of two amounts
PAYERS == <<<<"Z","E","D">>, <<"Y","A","K">>, <<"X","I">>, <<"W","E","B">>, <<"V","A","N">>, <<"U","R","N">>, <<"T","O","M">>, <<"S","K","Y">>>>
AMOUNTS == <<<<"1","0","0">>, <<"2","0","0">>>>

\* the payers of the ranking statements
MaxPayers == 6

payer_rows(am, from, to) ==
  [i \in 1..(to - from + 1) |-> row(Cell(PAYERS[from + i - 1]), Cell(AMOUNTS[am[from + i - 1]]), NaN)]

RankDisks ==
  { two_files(table(HEADER_STD, payer_rows(am, 1, 3)), table(HEADER_STD, payer_rows(am, 4, MaxPayers))) :
      am \in [1..MaxPayers -> 1..Len(AMOUNTS)] }

\* the files of the window's runs: a statement, a file that is no table, a table
\* without a narrative column, a statement with money out only
GuiDisk ==
  [p \in {PATH_A, PATH_B, PATH_C, PATH_D} |->
     CASE p = PATH_A -> table(HEADER_STD, <<ROWS[1], ROWS[3]>>)
       [] p = PATH_B -> UNREADABLE
       [] p = PATH_C -> table(HEADER_NO_DESC, <<ROWS[1], ROWS[4]>>)
       [] OTHER -> table(HEADER_ALT, <<row(Cell(<<"R","e","n","t"," ","p","a","y","m","e","n","t">>), NaN, Cell(<<"7","0","0">>))>>)]

(* ---------------------------- specifications --------------------------- *)

NO_POLICY_CALL == [risk |-> "Safe", rule_ids |-> <<>>]

\* the window, over the files of GuiDisk
Init ==
  /\ disk = GuiDisk
  /\ InitApp
  /\ policy_in = NO_POLICY_CALL
  /\ policy_out = <<>>
  /\ call_in = <<>>
  /\ call_out = <<>>

Next ==
  \/ \E f \in DOMAIN disk \cup {""} : choose_file(f)
  \/ \E f \in DOMAIN disk \cup {""} : add_file(f)
  \/ reset_all
  \/ run_analysis
  \/ close

Spec == Init /\ [][Next]_vars

\* runs over two statements, chosen in either order (the window after choose_file
\* and add_file)
InitPipeline ==
  /\ disk \in RuleDisks \cup RankDisks
  /\ selected_files \in {<<PATH_A, PATH_B>>, <<PATH_B, PATH_A>>}
  /\ file_listbox = file_lines(selected_files)
  /\ alert_box = <<MSG_READY>>
  /\ tree = <<>>
  /\ kpi_in = 0
  /\ kpi_out = 0
  /\ kpi_net = [value |-> 0, color |-> SUCCESS]
  /\ chart = <<>>
  /\ popup_open = FALSE
  /\ popup_text = <<>>
  /\ data = <<>>
  /\ last_op = "add_file"
  /\ policy_in = NO_POLICY_CALL
  /\ policy_out = <<>>
  /\ call_in = <<>>
  /\ call_out = <<>>

NextPipeline ==
  \/ run_analysis
  \/ close

SpecPipeline == InitPipeline /\ [][NextPipeline]_vars

\* build_policy_actions on its own, over every risk and short list of rule ids
RISKS == {"Safe", "Medium", "High"}
RULE_ID_POOL == {"INCOME_CONCENTRATION", "INDUSTRY_MISMATCH", "ROUND_AMOUNT_PATTERN",
                 "ESCALATE_HIGH", "UNLISTED_RULE"}

\* the longest list of rule ids
MaxRuleIds == 3

InitPolicy ==
  /\ disk = GuiDisk
  /\ InitApp
  /\ policy_in \in [risk : RISKS, rule_ids : SeqsUpTo(RULE_ID_POOL, MaxRuleIds)]
  /\ policy_out = <<>>
  /\ call_in = <<>>
  /\ call_out = <<>>

call_build_policy_actions ==
  /\ policy_out = <<>>
  /\ policy_out' = <<build_policy_actions(policy_in.risk, policy_in.rule_ids)>>
  /\ UNCHANGED <<disk, gui, data, last_op, policy_in, call_in, call_out>>

SpecPolicy == InitPolicy /\ [][call_build_policy_actions]_vars

\* get_counterparty on its own, over narratives put together from what comes before
\* the payer's name, the name, its legal form and what follows
LEADS ==
  { <<>>,
    <<"P","A","Y","M","E","N","T"," ","F","R","O","M"," ">>,
    <<"T","r","a","n","s","f","e","r"," ","t","o"," "," ">>,
    <<"I","N","V",",","7"," ">> }
NAMES ==
  { <<"A","C","M","E"," ","T","R","A","D","I","N","G">>,
    <<"Z","e","n"," "," ","F","o","o","d","s">>,
    <<"L","i","m"," ","&"," ","S","o","n","s">> }
LEGAL_FORMS ==
  { <<>>,
    <<" ","S","D","N"," ","B","H","D">>,
    <<" ","E","n","t","e","r","p","r","i","s","e">>,
    <<" ","p","l","t">> }
TRAILS ==
  { <<>>,
    <<" ","R","E","F","1","2","3">>,
    <<" ","(","I","N","V","7","7",")">> }

narrative(n) == n.lead \o n.name \o n.legal_form \o n.trail

InitExtract ==
  /\ disk = GuiDisk
  /\ InitApp
  /\ policy_in = NO_POLICY_CALL
  /\ policy_out = <<>>
  /\ call_in \in [lead : LEADS, name : NAMES, legal_form : LEGAL_FORMS, trail : TRAILS]
  /\ call_out = <<>>

call_get_counterparty ==
  /\ call_out = <<>>
  /\ call_out' = <<get_counterparty(Cell(narrative(call_in)))>>
  /\ UNCHANGED <<disk, gui, data, last_op, policy_in, policy_out, call_in>>

SpecExtract == InitExtract /\ [][call_get_counterparty]_vars

\* the column lookups of run_analysis on their own, over headers of up to MaxCols
\* different names
COLUMN_NAMES ==
  { <<"U","p","d","a","t","e"," ","O","u","t">>,
    <<"D","e","s","c","r","i","p","t","i","o","n">>,
    <<"D","e","s","c"," ","C","r">>,
    <<"T","r","a","n","s","a","c","t","i","o","n"," ","I","n">>,
    <<"C","r","e","d","i","t">>,
    <<" ","C","R","E","D","I","T"," ","A","M","T"," ">>,
    <<" ","D","e","p","o","s","i","t">>,
    <<"A","m","o","u","n","t"," ","I","n">>,
    <<"W","i","t","h","d","r","a","w","a","l">>,
    <<"P","a","y","o","u","t">> }

\* the most columns of a header
MaxCols == 3

HEADERS ==
  {h \in SeqsUpTo(COLUMN_NAMES, MaxCols) : \A i, j \in 1..Len(h) : i # j => h[i] # h[j]}

\* two records under a header, the cell of column j holding the amount j
SAMPLE_PATH == "t.csv"
amount_cell(j) == Cell(<<AsciiOrder[Ord["0"] + j]>>)
sample_rows(n) == [r \in 1..2 |-> [j \in 1..n |-> amount_cell(j)]]

InitColumns ==
  /\ disk = GuiDisk
  /\ InitApp
  /\ policy_in = NO_POLICY_CALL
  /\ policy_out = <<>>
  /\ call_in \in HEADERS
  /\ call_out = <<>>

\* one turn of the loop over selected_files on a table with the header call_in
lookups(cols, tbl) ==
  [desc |-> desc_col(cols), credit |-> credit_col(cols), debit |-> debit_col(cols),
   load |-> load_step([dfs |-> <<>>, alerts |-> <<>>], SAMPLE_PATH, tbl)]

call_lookups ==
  /\ call_out = <<>>
  /\ call_out' = <<lookups(strip_columns(call_in), table(call_in, sample_rows(Len(call_in))))>>
  /\ UNCHANGED <<disk, gui, data, last_op, policy_in, policy_out, call_in>>

SpecColumns == InitColumns /\ [][call_lookups]_vars

(* ------------------------------ properties ----------------------------- *)

\* the inflows of a payer in the frame of the run
inflows_of(company) == SelectSeq(data, LAMBDA t : t.company = company /\ t.credit > 0)

\* how many of the three rules fire on the payer of a block of the alert box
rules_fired(b) ==
  (IF concentration(b.pct) THEN 1 ELSE 0)
  + (IF mismatch(inflows_of(b.company)) THEN 1 ELSE 0)
  + (IF round_pattern(inflows_of(b.company)) THEN 1 ELSE 0)

is_block(i) == alert_box[i].kind = "block"

\* C1: every ranked payer on which two or more of the three rules fire is shown
\* with risk High and with the action level Escalate.
C1_TwoRulesEscalate ==
  \A i \in 1..Len(alert_box) :
     (is_block(i) /\ rules_fired(alert_box[i]) >= 2)
       => /\ alert_box[i].risk = "High"
          /\ alert_box[i].action_level = "Escalate"
          /\ \E k \in 1..Len(tree) : tree[k].company = alert_box[i].company /\ tree[k].risk = "High"

\* a payer under the concentration threshold on which the other two rules fire
C1_Witness ==
  \E i \in 1..Len(alert_box) :
     /\ is_block(i)
     /\ ~concentration(alert_box[i].pct)
     /\ mismatch(inflows_of(alert_box[i].company))
     /\ round_pattern(inflows_of(alert_box[i].company))
     /\ alert_box[i].action_level = "Escalate"

\* the rule ids the matrix holds, and the texts collected for a call: theirs in the
\* order given, then the one of the risk
known_ids(rule_ids) == SelectSeq(rule_ids, LAMBDA id : id \in DOMAIN POLICY_MATRIX)
risk_key(risk) ==
  IF risk = "High" THEN "ESCALATE_HIGH" ELSE IF risk = "Medium" THEN "MONITOR_MEDIUM" ELSE "STANDARD_SAFE"
collected(call) ==
  [i \in 1..(Len(known_ids(call.rule_ids)) + 1) |->
     IF i <= Len(known_ids(call.rule_ids))
     THEN POLICY_MATRIX[known_ids(call.rule_ids)[i]].action
     ELSE POLICY_MATRIX[risk_key(call.risk)].action]
first_at(x, s) == CHOOSE i \in 1..Len(s) : s[i] = x /\ \A j \in 1..(i - 1) : s[j] # x

EXAMPLE_CALL == [risk |-> "High", rule_ids |-> <<"INCOME_CONCENTRATION", "ROUND_AMOUNT_PATTERN">>]

\* C2: the actions build_policy_actions returns are the texts of the rule entries in
\* the order given followed by the one risk entry, each text once, in first-seen
\* order; for (High, [INCOME_CONCENTRATION, ROUND_AMOUNT_PATTERN]) they are the
\* three texts concentration, round amount, escalate.
C2_ActionsOnceInOrder ==
  policy_out # <<>> =>
    LET acts == policy_out[1].actions
        col == collected(policy_in)
    IN /\ {acts[i] : i \in 1..Len(acts)} = {col[i] : i \in 1..Len(col)}
       /\ \A i, j \in 1..Len(acts) : i < j => acts[i] # acts[j]
       /\ \A i, j \in 1..Len(acts) : i < j => first_at(acts[i], col) < first_at(acts[j], col)
       /\ policy_in = EXAMPLE_CALL =>
            acts = << POLICY_MATRIX["INCOME_CONCENTRATION"].action,
                      POLICY_MATRIX["ROUND_AMOUNT_PATTERN"].action,
                      POLICY_MATRIX["ESCALATE_HIGH"].action >>

\* the call of the example has returned its three texts
C2_Witness ==
  /\ policy_out # <<>>
  /\ policy_in = EXAMPLE_CALL
  /\ Len(policy_out[1].actions) = 3

\* C3: every transaction run_analysis builds stores a credit and a debit that are
\* not negative.
C3_AmountsNotNegative ==
  last_op = "run_analysis" =>
    \A i \in 1..Len(data) : data[i].credit >= 0 /\ data[i].debit >= 0

RECURSIVE sum_pct(_)
sum_pct(rows) == IF rows = <<>> THEN 0 ELSE Head(rows).pct + sum_pct(Tail(rows))

\* C4: the shares of the ranked payers (pct, in tenths of a percent) lie each between
\* 0 and 100 and add up to no more than 100.
C4_SharesWithinWhole ==
  /\ \A k \in 1..Len(tree) : 0 <= tree[k].pct /\ tree[k].pct <= 1000
  /\ sum_pct(tree) <= 1000

\* the selected files in every other order
orders(files) ==
  {p \in [1..Len(files) -> {files[i] : i \in 1..Len(files)}] :
     \A i, j \in 1..Len(files) : i # j => p[i] # p[j]}

\* the action levels shown in the blocks of the alert box
shown_levels ==
  LET bs == SelectSeq(alert_box, LAMBDA b : b.kind = "block")
  IN [i \in 1..Len(bs) |-> bs[i].action_level]

\* what is on the window is what a run computes
shows(a) ==
  /\ kpi_in = a.total_in
  /\ kpi_out = a.total_out
  /\ kpi_net.value = a.net
  /\ tree = [i \in 1..Len(a.records) |-> tree_row(i, a.records[i])]
  /\ shown_levels = [i \in 1..Len(a.records) |-> a.records[i].action_level]

first_seen(company) ==
  CHOOSE i \in 1..Len(data) :
     /\ data[i].company = company /\ data[i].credit > 0
     /\ \A j \in 1..(i - 1) : ~(data[j].company = company /\ data[j].credit > 0)

payers == {data[i].company : i \in {k \in 1..Len(data) : data[k].credit > 0}}
RECURSIVE add_up(_)
add_up(ns) == IF ns = <<>> THEN 0 ELSE Head(ns) + add_up(Tail(ns))
total_of(company) == add_up([i \in 1..Len(inflows_of(company)) |-> inflows_of(company)[i].credit])
ranked_payers == {tree[k].company : k \in 1..Len(tree)}

\* the ranked rows are at most TOP_N payers, each once with its summed credit, in
\* non-increasing order, and no payer left out has more than one ranked
top_by_amount ==
  /\ Len(tree) <= 5
  /\ payers # {} => tree # <<>>
  /\ \A k \in 1..Len(tree) :
        /\ tree[k].rank = k
        /\ tree[k].company \in payers
        /\ tree[k].inflow = total_of(tree[k].company)
  /\ \A i, j \in 1..Len(tree) : i < j => tree[i].company # tree[j].company /\ tree[i].inflow >= tree[j].inflow
  /\ payers \ ranked_payers # {} => Len(tree) = 5
  /\ \A c \in payers \ ranked_payers : \A k \in 1..Len(tree) : total_of(c) <= tree[k].inflow

\* among equal summed credits, before(c, d) tells which payer comes first
ties_by(before(_, _)) ==
  /\ \A i, j \in 1..Len(tree) :
        (i < j /\ tree[i].inflow = tree[j].inflow) => before(tree[i].company, tree[j].company)
  /\ \A c \in payers \ ranked_payers : \A k \in 1..Len(tree) :
        total_of(c) = tree[k].inflow => before(tree[k].company, c)

by_first_seen(c, d) == first_seen(c) < first_seen(d)

\* C6 as stated: at most 5 payers in non-increasing order of summed credit, none left
\* out with more than a ranked one, and among equal summed credits the payer first
\* seen in the merged transactions ranked, and kept at the cut, ahead of the later one.
C6_TiesByFirstSeen ==
  (last_op = "run_analysis" /\ kpi_in > 0) => top_by_amount /\ ties_by(by_first_seen)

\* C6: at most 5 payers in non-increasing order of summed credit, none left out with
\* more than a ranked one, and among equal summed credits the payer whose name sorts
\* first ranked, and kept at the cut, ahead of the other.
C6_TiesByName ==
  (last_op = "run_analysis" /\ kpi_in > 0) => top_by_amount /\ ties_by(StrLess)

\* five payers ranked, two of them level, and one left out level with the fifth
C6_Witness ==
  /\ last_op = "run_analysis"
  /\ Len(tree) = 5
  /\ tree[4].inflow = tree[5].inflow
  /\ \E c \in payers \ ranked_payers : total_of(c) = tree[5].inflow

\* the sums of the merged credits and debits
merged_credit == add_up([i \in 1..Len(data) |-> data[i].credit])
merged_debit == add_up([i \in 1..Len(data) |-> data[i].debit])

\* a table run_analysis gives up: read_csv raises, or no description column
gives_up(path) ==
  ~disk[path].readable \/ ~Truthy(desc_col(strip_columns(disk[path].columns)))
kept_files == SelectSeq(selected_files, LAMBDA p : ~gives_up(p))
given_up_files == SelectSeq(selected_files, gives_up)

\* a run that data some table and found a total credit of zero or less
no_inflow_run ==
  /\ last_op = "run_analysis"
  /\ selected_files # <<>>
  /\ kept_files # <<>>
  /\ merged_credit <= 0

no_inflow_report ==
  /\ alert_box # <<>>
  /\ alert_box[Len(alert_box)] = MSG_NO_INFLOW
  /\ \A i \in 1..Len(alert_box) : alert_box[i].kind # "block"
  /\ ~popup_open

\* C7 as stated: with a total credit of zero or less the run reports no inflow, shows
\* no ranked payer and no popup, and leaves inflow, outflow and net at zero.
C7_TotalsLeftAtZero ==
  no_inflow_run =>
    /\ no_inflow_report
    /\ kpi_in = 0 /\ kpi_out = 0 /\ kpi_net.value = 0

\* C7: with a total credit of zero or less the run reports no inflow, adds no ranked
\* row, draws no chart and opens no popup, and shows the sums it computed as the
\* totals: inflow the summed credit, outflow the summed debit, net their difference.
C7_NoInflowShowsTotals ==
  [][(last_op' = "run_analysis" /\ selected_files # <<>> /\ kept_files # <<>> /\ merged_credit' <= 0) =>
       /\ no_inflow_report'
       /\ tree' = tree
       /\ chart' = chart
       /\ kpi_in' = merged_credit'
       /\ kpi_out' = merged_debit'
       /\ kpi_net'.value = merged_credit' - merged_debit']_vars

\* a run over money out only, after a run that ranked payers
C7_Witness ==
  /\ no_inflow_run
  /\ kpi_out > 0
  /\ tree # <<>>

\* C8: a table that cannot be read or has no description column is reported and adds
\* no transaction; every other table adds all its rows, wherever it stands in the
\* list; the run stops with "No valid data" exactly when every table was given up.
C8_FailedTableIsolated ==
  (last_op = "run_analysis" /\ selected_files # <<>>) =>
    /\ SelectSeq(alert_box, LAMBDA l : l.kind \in {"error", "skipped"})
         = [i \in 1..Len(given_up_files) |->
              [kind |-> IF disk[given_up_files[i]].readable THEN "skipped" ELSE "error",
               path |-> given_up_files[i]]]
    /\ data = concat([i \in 1..Len(kept_files) |-> transactions(disk[kept_files[i]])])
    /\ Len(data) = add_up([i \in 1..Len(kept_files) |-> Len(disk[kept_files[i]].rows)])
    /\ InSeq(MSG_NO_VALID, alert_box) <=> kept_files = <<>>
    /\ kept_files # <<>> =>
         /\ kpi_in = merged_credit
         /\ kpi_out = merged_debit

\* a statement between a file that is no table and a table without narratives
C8_Witness ==
  /\ last_op = "run_analysis"
  /\ selected_files = <<PATH_B, PATH_A, PATH_C>>
  /\ kpi_in > 0
  /\ tree # <<>>

\* a narrative names an industry
names_industry(text, ind) == \E k \in INDUSTRY_KEYWORDS[ind] : Contains(k, lower(text))

\* a narrative that names some industry and not the base one
off_base(t) ==
  /\ \E ind \in DOMAIN INDUSTRY_KEYWORDS : names_industry(astype_str(t.desc), ind)
  /\ ~names_industry(astype_str(t.desc), BASE_INDUSTRY)

\* C9: the industry-mismatch rule fires on a ranked payer if and only if one of its
\* inflow narratives names at least one industry and not the base industry.
C9_MismatchIffOffBase ==
  \A i \in 1..Len(alert_box) :
     is_block(i) =>
       LET txns == inflows_of(alert_box[i].company)
           fires == \E k \in 1..Len(txns) : off_base(txns[k])
       IN /\ InSeq(FLAG_B, alert_box[i].reason) <=> fires
          /\ InSeq(POLICY_MATRIX["INDUSTRY_MISMATCH"].action, alert_box[i].actions) <=> fires

\* one payer flagged, and beside it one whose narrative names the base industry
\* among others, not flagged
C9_Witness ==
  \E i, j \in 1..Len(alert_box) :
     /\ is_block(i) /\ is_block(j)
     /\ InSeq(FLAG_B, alert_box[i].reason)
     /\ ~InSeq(FLAG_B, alert_box[j].reason)
     /\ \E k \in 1..Len(inflows_of(alert_box[j].company)) :
           Cardinality(detect_other_industries(astype_str(inflows_of(alert_box[j].company)[k].desc))) >= 2

\* a positive amount (in hundredths) that is a whole multiple of 5000 or of 10000
round_amount(c) == c > 0 /\ (c % 500000 = 0 \/ c % 1000000 = 0)

\* C10: the round-amount rule fires on a ranked payer if and only if one of its
\* positive credits is an exact multiple of 5000 or of 10000: 15000 fires it, 15001
\* alone does not.
C10_RoundIffMultiple ==
  \A i \in 1..Len(alert_box) :
     is_block(i) =>
       LET credits == {data[k].credit : k \in {n \in 1..Len(data) : data[n].company = alert_box[i].company}}
           fires == \E c \in credits : round_amount(c)
       IN /\ InSeq(FLAG_C, alert_box[i].reason) <=> fires
          /\ 1500000 \in credits => InSeq(FLAG_C, alert_box[i].reason)
          /\ {c \in credits : c > 0} = {1500100} => ~InSeq(FLAG_C, alert_box[i].reason)

\* a payer with a credit of 15000 flagged beside one with 15001 alone, not flagged
C10_Witness ==
  \E i, j \in 1..Len(alert_box) :
     /\ is_block(i) /\ is_block(j)
     /\ \E k \in 1..Len(data) : data[k].company = alert_box[i].company /\ data[k].credit = 1500000
     /\ InSeq(FLAG_C, alert_box[i].reason)
     /\ \A k \in 1..Len(data) : data[k].company = alert_box[j].company => data[k].credit = 1500100
     /\ ~InSeq(FLAG_C, alert_box[j].reason)

\* the name with its legal form, as get_counterparty writes a match: runs of blanks
\* collapsed, in upper case
name_and_form(n) == upper(strip(collapse(n.name \o n.legal_form)))

\* C11: for a narrative where a business name ending in a legal-entity suffix comes
\* after other narrative words and before a reference token, get_counterparty
\* returns the business name with its suffix only, blanks collapsed, in upper case:
\* "PAYMENT FROM ACME TRADING SDN BHD REF123" gives "ACME TRADING SDN BHD".
C11_NameAndSuffixOnly ==
  (call_out # <<>> /\ call_in.lead = <<"P","A","Y","M","E","N","T"," ","F","R","O","M"," ">>
     /\ call_in.legal_form # <<>> /\ call_in.trail = <<" ","R","E","F","1","2","3">>)
    => call_out[1] = name_and_form(call_in)

\* the criteria of a role in priority order: the keywords to find, the ones to avoid
criterion(find, avoid) == [find |-> find, avoid |-> avoid]
DESC_CRITERIA ==
  << criterion(KW_DESCRIPTION, <<>>), criterion(KW_DESC, <<>>), criterion(KW_TRANSACTION_DETAILS, <<>>),
     criterion(KW_NARRATION, <<>>), criterion(KW_PARTICULAR, <<>>) >>
CREDIT_CRITERIA ==
  << criterion(KW_CREDIT, <<>>), criterion(KW_DEPOSIT, <<>>), criterion(KW_CR, KW_X_DESC),
     criterion(KW_INFLOW, <<>>), criterion(KW_IN, KW_X_DATE) >>
DEBIT_CRITERIA ==
  << criterion(KW_DEBIT, <<>>), criterion(KW_WITHDRAW, <<>>), criterion(KW_DR, KW_X_DESC),
     criterion(KW_OUTFLOW, <<>>), criterion(KW_OUT, KW_X_DATE) >>

\* a column name satisfies a criterion: some keyword to find occurs in it, whatever
\* the case, and no keyword to avoid does
meets(name, c) ==
  /\ \E k \in 1..Len(c.find) : Contains(c.find[k], lower(name))
  /\ \A k \in 1..Len(c.avoid) : ~Contains(c.avoid[k], lower(name))

\* the first column that satisfies the first criterion any column satisfies
first_of_best(cols, criteria) ==
  LET met == {k \in 1..Len(criteria) : \E i \in 1..Len(cols) : meets(cols[i], criteria[k])}
  IN IF met = {} THEN None
     ELSE cols[Min({i \in 1..Len(cols) : meets(cols[i], criteria[Min(met)])})]

\* the frame of the sample table reads the amounts of the columns found, and zero
\* throughout on a side without column
reads_columns(frame, cols, out) ==
  \A r \in 1..Len(frame) :
     /\ frame[r].credit = IF out.credit = None THEN 0 ELSE 100 * ColIndex(cols, out.credit)
     /\ frame[r].debit = IF out.debit = None THEN 0 ELSE 100 * ColIndex(cols, out.debit)

\* C12: each role resolves to the first column, in table order, that satisfies the
\* highest-priority criterion any column satisfies, and to none exactly when no
\* column satisfies any of its criteria; a table without credit or debit column is
\* kept, that side zero in every row, and only a table without description column
\* is given up.
C12_FirstOfBestCriterion ==
  call_out # <<>> =>
    LET cols == strip_columns(call_in)
        out == call_out[1]
    IN /\ out.desc = first_of_best(cols, DESC_CRITERIA)
       /\ out.credit = first_of_best(cols, CREDIT_CRITERIA)
       /\ out.debit = first_of_best(cols, DEBIT_CRITERIA)
       /\ out.desc = None <=> out.load.dfs = <<>>
       /\ out.desc = None <=> out.load.alerts = <<[kind |-> "skipped", path |-> SAMPLE_PATH]>>
       /\ out.desc # None =>
            /\ Len(out.load.dfs) = 1
            /\ Len(out.load.dfs[1]) = 2
            /\ reads_columns(out.load.dfs[1], cols, out)

\* a table kept without debit column whose credit column stands after a column that
\* satisfies a criterion of lower priority only
C12_Witness ==
  /\ call_out # <<>>
  /\ call_out[1].desc # None
  /\ call_out[1].debit = None
  /\ call_out[1].load.dfs # <<>>
  /\ \E i, j \in 1..Len(call_in) :
        /\ i < j
        /\ strip(call_in[j]) = call_out[1].credit
        /\ \E k \in 1..Len(CREDIT_CRITERIA) : meets(call_in[i], CREDIT_CRITERIA[k])

\* the run ended before the ranking: no file selected, no table kept, or a total
\* credit of zero or less
ended_early == selected_files = <<>> \/ kept_files = <<>> \/ merged_credit <= 0

\* the rows of the tree are those of the blocks this run wrote to the alert box
rows_of_blocks ==
  LET bs == SelectSeq(alert_box, LAMBDA b : b.kind = "block")
  IN /\ Len(tree) = Len(bs)
     /\ \A i \in 1..Len(bs) :
           /\ tree[i].rank = i
           /\ tree[i].company = bs[i].company
           /\ tree[i].inflow = total_of(bs[i].company)
           /\ tree[i].pct = bs[i].pct
           /\ tree[i].risk = bs[i].risk
           /\ tree[i].reason = bs[i].reason

\* C13: at the end of each run_analysis the tree holds exactly the records of that
\* run, and is empty when the run ended early (no file selected, no valid table, or
\* total credit <= 0): rows of an earlier run never stay beside the totals and
\* alerts of a later one.
C13_TreeOfThisRun ==
  last_op = "run_analysis" => IF ended_early THEN tree = <<>> ELSE rows_of_blocks

====
